---- MODULE Spec2Model ----
(***************************************************************************)
(* Model of workato_recipe.py: the component model (Trigger, Action,       *)
(* Recipe) as a heap of objects and Python lists, and traverse_recipe as   *)
(* a sequence of calls of _traverse_component, one printed record a step.  *)
(*                                                                         *)
(* A Python list is an object with identity: `lists` is the heap of the    *)
(* lists that components hold, and a component's field is the id of its   *)
(* list, so that two components, or a component and its caller, can hold   *)
(* the same list.                                                          *)
(*                                                                         *)
(* A record is the line _traverse_component prints, without its two        *)
(* schemas (they are attributes set at construction and never changed),    *)
(* and with the component and the path it was printed for.  The header     *)
(* line "Recipe: <name>" is not a node record and is left out.             *)
(*                                                                         *)
(* Python checks no type annotation: add_action and add_nested_action      *)
(* append whatever component they are given, a Trigger included.           *)
(*                                                                         *)
(* Spec constructs, grows, reads and traverses components within small     *)
(* bounds; SpecTraverse starts from every recipe within its bounds and     *)
(* runs traverse_recipe, appends and traverse_recipe again.                *)
(***************************************************************************)
EXTENDS Integers, Sequences, FiniteSets, TLC

VARIABLES
    objs,            \* heap of components: [kind, name, nested]; nested = id of _nested_actions
    lists,           \* heap of lists held by components: list id -> sequence of component ids
    recipe,          \* the Recipe: [trigger, actions]; 0 = not constructed yet
    held,            \* the list the caller holds in a variable
    room,            \* appends still modelled
    pc,              \* traverse_recipe: "idle", "running", "done", "error"
    stack,           \* call stack of the running traversal
    global_counter,  \* global_counter[0]
    out,             \* node records printed by the current call of traverse_recipe
    lastOut,         \* node records printed by the call before, when no list of a
                     \* component was mutated between the two calls; else <<>>
    dirty,           \* a list of a component was mutated since the current call started
    op               \* the operation of the program that ran last

vars == <<objs, lists, recipe, held, room, pc, stack, global_counter, out, lastOut, dirty, op>>

----------------------------------------------------------------------------
(* Bounds *)

MaxEntries == 4       \* SpecTraverse: list entries of a recipe, in all
MaxObjs == 3          \* Spec: components constructed
MaxAppends == 2       \* Spec: appends to lists, in all

Names == {"T", "A"}

\* SpecTraverse: the names of the Actions a recipe is drawn from
PoolNames == <<"A", "T", "B">>

\* SpecTraverse: the name of one more Trigger, which is not the recipe's
ExtraTrigger == "X"

PoolActions == Len(PoolNames)

\* Depth of the interpreter's call stack at which Python raises
\* RecursionError.  CPython's limit (1000) is far above the depth of any
\* acyclic structure of the model; the model keeps that relation.
RecursionLimit == PoolActions + 2

----------------------------------------------------------------------------
(* Component model *)

NoList == 0

TriggerObj(name) == [kind |-> "Trigger", name |-> name, nested |-> NoList]

ActionObj(name, l) == [kind |-> "Action", name |-> name, nested |-> l]

ObjIds == 1..Len(objs)

IsTrigger(c) == objs[c].kind = "Trigger"

IsAction(c) == objs[c].kind = "Action"

\* Trigger.get_children returns [], Action.get_children a copy of the list.
GetChildren(c) == IF IsTrigger(c) THEN <<>> ELSE lists[objs[c].nested]

\* Recipe.actions: a copy of the list the recipe holds.
RecipeActions == lists[recipe.actions]

RecipeMade == recipe.trigger # 0

\* The caller's list variable: nothing, a list no component holds (own),
\* or the very list a component holds (ref, the id of that list).
NoHeld == [tag |-> "none", val |-> <<>>, id |-> NoList]

Own(val) == [tag |-> "own", val |-> val, id |-> NoList]

Ref(l) == [tag |-> "ref", val |-> <<>>, id |-> l]

HeldVal == IF held.tag = "ref" THEN lists[held.id] ELSE held.val

\* traverse_recipe is synchronous: nothing else runs while it does.
Idle == pc # "running"

\* An append is modelled while room is left.
Room == room > 0

\* `arg or []` of the constructors: the caller's list itself when it is
\* given and not empty, a new empty list otherwise.  The three results are
\* the heap of lists, the id of the list the component holds, and the
\* caller's variable afterwards.
KeepsArg(arg) == arg = "held" /\ HeldVal # <<>>

CtorLists(arg) ==
    IF KeepsArg(arg)
    THEN IF held.tag = "ref" THEN lists ELSE Append(lists, held.val)
    ELSE Append(lists, <<>>)

CtorListId(arg) ==
    IF KeepsArg(arg) /\ held.tag = "ref" THEN held.id ELSE Len(lists) + 1

CtorHeld(arg) ==
    IF KeepsArg(arg) /\ held.tag = "own" THEN Ref(Len(lists) + 1) ELSE held

CtorArgs == {"None"} \cup (IF held.tag = "none" THEN {} ELSE {"held"})

\* Trigger(name, ...)
NewTrigger(name) ==
    /\ Idle
    /\ Len(objs) < MaxObjs
    /\ objs' = Append(objs, TriggerObj(name))
    /\ op' = "Trigger"
    /\ UNCHANGED <<lists, recipe, held, room, pc, stack, global_counter, out, lastOut, dirty>>

\* Action(name, ..., nested_actions=arg)
NewAction(name, arg) ==
    /\ Idle
    /\ Len(objs) < MaxObjs
    /\ objs' = Append(objs, ActionObj(name, CtorListId(arg)))
    /\ lists' = CtorLists(arg)
    /\ held' = CtorHeld(arg)
    /\ op' = "Action"
    /\ UNCHANGED <<recipe, room, pc, stack, global_counter, out, lastOut, dirty>>

\* Recipe(name, trigger, actions=arg), with a Trigger as its trigger
NewRecipe(t, arg) ==
    /\ Idle
    /\ ~RecipeMade
    /\ IsTrigger(t)
    /\ recipe' = [trigger |-> t, actions |-> CtorListId(arg)]
    /\ lists' = CtorLists(arg)
    /\ held' = CtorHeld(arg)
    /\ op' = "Recipe"
    /\ UNCHANGED <<objs, room, pc, stack, global_counter, out, lastOut, dirty>>

\* self._nested_actions.append(action) / self._actions.append(action)
ListAppend(l, c) == [lists EXCEPT ![l] = Append(@, c)]

\* a.add_nested_action(c)
AddNestedAction(a, c) ==
    /\ Idle
    /\ IsAction(a)
    /\ Room
    /\ lists' = ListAppend(objs[a].nested, c)
    /\ room' = room - 1
    /\ dirty' = TRUE
    /\ op' = "add_nested_action"
    /\ UNCHANGED <<objs, recipe, held, pc, stack, global_counter, out, lastOut>>

\* recipe.add_action(c)
AddAction(c) ==
    /\ Idle
    /\ RecipeMade
    /\ Room
    /\ lists' = ListAppend(recipe.actions, c)
    /\ room' = room - 1
    /\ dirty' = TRUE
    /\ op' = "add_action"
    /\ UNCHANGED <<objs, recipe, held, pc, stack, global_counter, out, lastOut>>

\* The copy a read accessor returns: a new list with the same elements.
Copy(l) == Own(l)

\* x = c.get_children()
ReadGetChildren(c) ==
    /\ Idle
    /\ held' = Copy(GetChildren(c))
    /\ op' = "get_children"
    /\ UNCHANGED <<objs, lists, recipe, room, pc, stack, global_counter, out, lastOut, dirty>>

\* x = a.nested_actions
ReadNestedActions(a) ==
    /\ Idle
    /\ IsAction(a)
    /\ held' = Copy(lists[objs[a].nested])
    /\ op' = "nested_actions"
    /\ UNCHANGED <<objs, lists, recipe, room, pc, stack, global_counter, out, lastOut, dirty>>

\* x = recipe.actions
ReadRecipeActions ==
    /\ Idle
    /\ RecipeMade
    /\ held' = Copy(RecipeActions)
    /\ op' = "actions"
    /\ UNCHANGED <<objs, lists, recipe, room, pc, stack, global_counter, out, lastOut, dirty>>

\* x = []
CallerNewList ==
    /\ Idle
    /\ held' = Own(<<>>)
    /\ op' = "caller"
    /\ UNCHANGED <<objs, lists, recipe, room, pc, stack, global_counter, out, lastOut, dirty>>

\* x.append(c): the caller mutates the list it holds
CallerAppend(c) ==
    /\ Idle
    /\ held.tag # "none"
    /\ Room
    /\ room' = room - 1
    /\ IF held.tag = "ref"
       THEN /\ lists' = ListAppend(held.id, c)
            /\ dirty' = TRUE
            /\ UNCHANGED held
       ELSE /\ held' = Own(Append(held.val, c))
            /\ UNCHANGED <<lists, dirty>>
    /\ op' = "caller"
    /\ UNCHANGED <<objs, recipe, pc, stack, global_counter, out, lastOut>>

----------------------------------------------------------------------------
(* traverse_recipe *)

RECURSIVE Join(_)
\* ".".join(map(str, nested_path))
Join(path) ==
    IF Len(path) = 0 THEN ""
    ELSE IF Len(path) = 1 THEN ToString(path[1])
    ELSE Join(SubSeq(path, 1, Len(path) - 1)) \o "." \o ToString(path[Len(path)])

NestedIndex(path) == Join(path)

\* Mutants of ComponentType: the label is the stored name whatever the kind;
\* the label is "T" for the recipe's own trigger only.
ComponentTypeByName(c) == objs[c].name

ComponentTypeByIdentity(c) == IF c = recipe.trigger THEN "T" ELSE objs[c].name

\* component_type = "T" if isinstance(component, Trigger) else component.name
ComponentType(c) == IF IsTrigger(c) THEN "T" ELSE objs[c].name

\* Mutant of NextGlobal: the counter is not incremented.
NextGlobalStuck(c) == c

\* global_counter[0] += 1
NextGlobal(c) == c + 1

\* Mutant of StartCounter: the counter is kept from the call before.
StartCounterKept == global_counter

\* global_counter = [0]
StartCounter == 0

\* Mutant of ChildPath: the children are numbered from 0.
ChildPathFromZero(path, i) == Append(path, i - 1)

\* enumerate(children, 1): the i-th child gets nested_path + [i]
ChildPath(path, i) == Append(path, i)

\* Mutant of TopLevelPath: the top-level index is taken from the global counter.
TopLevelPathByCounter(i) == <<global_counter + 1>>

TopLevelStart == 2

\* enumerate(recipe.actions, 2): the i-th top-level action gets [i + 1]
TopLevelPath(i) == <<TopLevelStart + (i - 1)>>

\* The frame of traverse_recipe itself: component 0; i = 0 until the loop
\* over recipe.actions starts.
TopFrame == [component |-> 0, nested_path |-> <<>>, children |-> <<>>, i |-> 0]

\* Mutant of Frame: the call does not descend into the children.
FrameChildless(c, path) == [component |-> c, nested_path |-> path, children |-> <<>>, i |-> 1]

\* The frame of _traverse_component(c, global_counter, path) once it has
\* printed its record and read component.get_children().
Frame(c, path) == [component |-> c, nested_path |-> path, children |-> GetChildren(c), i |-> 1]

Record(g, c, path) ==
    [global |-> g, nested_index |-> NestedIndex(path), component_type |-> ComponentType(c),
     component |-> c, nested_path |-> path]

RECURSIVE Unwind(_)
\* Return from the frames whose loop is exhausted, down to the frame that
\* makes the next call; <<>> when traverse_recipe itself returns.
Unwind(stk) ==
    IF stk = <<>> THEN <<>>
    ELSE LET f == stk[Len(stk)] IN
         IF f.component = 0 /\ f.i = 0
         THEN Unwind(<<[f EXCEPT !.children = RecipeActions, !.i = 1]>>)
         ELSE IF f.i <= Len(f.children) THEN stk
         ELSE Unwind(SubSeq(stk, 1, Len(stk) - 1))

\* traverse_recipe(recipe) is called: the counter is set up and the trigger
\* is visited with path [1].
TraverseStart ==
    /\ RecipeMade
    /\ Idle
    /\ pc' = "running"
    /\ lastOut' = IF dirty THEN <<>> ELSE out
    /\ dirty' = FALSE
    /\ global_counter' = NextGlobal(StartCounter)
    /\ out' = <<Record(NextGlobal(StartCounter), recipe.trigger, <<1>>)>>
    /\ stack' = <<TopFrame, Frame(recipe.trigger, <<1>>)>>
    /\ op' = "traverse_recipe"
    /\ UNCHANGED <<objs, lists, recipe, held, room>>

\* The traversal runs on to its next call of _traverse_component, which
\* prints one record, or to the end of traverse_recipe.  A call deeper than
\* the interpreter allows raises RecursionError, which no frame handles:
\* traverse_recipe ends with the error.
TraverseStep ==
    /\ pc = "running"
    /\ LET stk == Unwind(stack) IN
       IF stk = <<>>
       THEN /\ pc' = "done"
            /\ stack' = <<>>
            /\ UNCHANGED <<global_counter, out>>
       ELSE LET n == Len(stk)
                f == stk[n]
                child == f.children[f.i]
                path == IF f.component = 0 THEN TopLevelPath(f.i)
                        ELSE ChildPath(f.nested_path, f.i)
                g == NextGlobal(global_counter)
            IN  IF n + 1 > RecursionLimit
                THEN /\ pc' = "error"
                     /\ stack' = <<>>
                     /\ UNCHANGED <<global_counter, out>>
                ELSE /\ pc' = "running"
                     /\ global_counter' = g
                     /\ out' = Append(out, Record(g, child, path))
                     /\ stack' = Append([stk EXCEPT ![n].i = f.i + 1], Frame(child, path))
    /\ op' = "traverse_recipe"
    /\ UNCHANGED <<objs, lists, recipe, held, room, lastOut, dirty>>

----------------------------------------------------------------------------
(* SpecTraverse: traverse_recipe applied to every recipe within the bounds *)

RECURSIVE SeqsUpTo(_, _)
SeqsUpTo(S, n) ==
    IF n = 0 THEN {<<>>}
    ELSE LET shorter == SeqsUpTo(S, n - 1)
         IN  shorter \cup {Append(s, x) : s \in {t \in shorter : Len(t) = n - 1}, x \in S}

\* The components a list of a drawn recipe may hold: the pool's Actions
\* (ids 2..PoolActions + 1) and the extra Trigger.
PoolIds == 2..(PoolActions + 2)

RECURSIVE ReachFrom(_, _, _)
\* The components reachable from the components of `front` through `ls`.
ReachFrom(ls, front, seen) ==
    IF front = {} THEN seen
    ELSE LET nxt == UNION {{ls[c][k] : k \in 1..Len(ls[c])} : c \in front \cap DOMAIN ls}
         IN  ReachFrom(ls, nxt \ (seen \cup front), seen \cup front)

InTree(ls) == ReachFrom(ls, {ls[1][k] : k \in 1..Len(ls[1])}, {})

\* The lists of a recipe: `flat` cut at the positions cut[1] <= cut[2] <= ...
\* into the recipe's list (list 1) and the list of each pool Action.
Cuts(flat, cut) ==
    [l \in 1..(PoolActions + 1) |->
        SubSeq(flat, (IF l = 1 THEN 0 ELSE cut[l - 1]) + 1,
                     IF l = PoolActions + 1 THEN Len(flat) ELSE cut[l])]

\* The recipes drawn: the recipe's trigger, the pool's Actions and one more
\* Trigger, at most MaxEntries list entries in all; an Action that is not
\* part of the recipe is childless.
InitTree ==
    /\ \E tn \in Names :
         objs = <<TriggerObj(tn)>> \o [i \in 1..PoolActions |-> ActionObj(PoolNames[i], i + 1)]
                    \o <<TriggerObj(ExtraTrigger)>>
    /\ \E flat \in SeqsUpTo(PoolIds, MaxEntries) :
         \E cut \in [1..PoolActions -> 0..Len(flat)] :
            /\ \A l \in 1..(PoolActions - 1) : cut[l] <= cut[l + 1]
            /\ LET ls == Cuts(flat, cut)
               IN  /\ \A c \in (DOMAIN ls \ {1}) \ InTree(ls) : ls[c] = <<>>
                   /\ lists = ls
                   /\ room = MaxEntries - Len(flat)
    /\ recipe = [trigger |-> 1, actions |-> 1]
    /\ held = NoHeld
    /\ pc = "idle"
    /\ stack = <<>>
    /\ global_counter = 0
    /\ out = <<>>
    /\ lastOut = <<>>
    /\ dirty = FALSE
    /\ op = "none"

\* Calls of traverse_recipe, with no append or one append between two calls
\* (every recipe within the bounds is drawn by InitTree already).
NextTraverse ==
    \/ TraverseStart
    \/ TraverseStep
    \/ \E a \in ObjIds, c \in PoolIds : ~dirty /\ AddNestedAction(a, c)
    \/ \E c \in PoolIds : ~dirty /\ AddAction(c)

SpecTraverse == InitTree /\ [][NextTraverse]_vars

----------------------------------------------------------------------------
(* Spec: the components are constructed, grown, read and traversed *)

Init ==
    /\ objs = <<>>
    /\ lists = <<>>
    /\ recipe = [trigger |-> 0, actions |-> NoList]
    /\ held = NoHeld
    /\ room = MaxAppends
    /\ pc = "idle"
    /\ stack = <<>>
    /\ global_counter = 0
    /\ out = <<>>
    /\ lastOut = <<>>
    /\ dirty = FALSE
    /\ op = "none"

Next ==
    \/ \E name \in Names : NewTrigger(name)
    \/ \E name \in Names, arg \in CtorArgs : NewAction(name, arg)
    \/ \E t \in ObjIds, arg \in CtorArgs : NewRecipe(t, arg)
    \/ \E a \in ObjIds, c \in ObjIds : AddNestedAction(a, c)
    \/ \E c \in ObjIds : AddAction(c)
    \/ \E c \in ObjIds : ReadGetChildren(c)
    \/ \E a \in ObjIds : ReadNestedActions(a)
    \/ ReadRecipeActions
    \/ CallerNewList
    \/ \E c \in ObjIds : CallerAppend(c)
    \/ TraverseStart
    \/ TraverseStep

Spec == Init /\ [][Next]_vars

----------------------------------------------------------------------------
(* What the claims speak of *)

Elems(l) == {l[k] : k \in 1..Len(l)}

\* The ordered children a component stores.
Stored(c) == IF objs[c].kind = "Trigger" THEN <<>> ELSE lists[objs[c].nested]

TopLevel == lists[recipe.actions]

RECURSIVE Reach(_, _)
\* The components reachable from those of `front` through stored children.
Reach(front, seen) ==
    IF front = {} THEN seen
    ELSE LET nxt == UNION {Elems(Stored(c)) : c \in front}
         IN  Reach(nxt \ (seen \cup front), seen \cup front)

\* The components of the recipe below its trigger.
Nodes == Reach(Elems(TopLevel), {})

\* Some component of the recipe is its own descendant.
Cyclic == \E c \in Nodes : c \in Reach(Elems(Stored(c)), {})

RECURSIVE SumStored(_)
SumStored(S) ==
    IF S = {} THEN 0
    ELSE LET c == CHOOSE x \in S : TRUE IN Len(Stored(c)) + SumStored(S \ {c})

\* The recipe's actions form a tree of Actions: every component below the
\* trigger is an Action and is the child of exactly one parent.
ProperTree ==
    /\ \A c \in Nodes : objs[c].kind = "Action"
    /\ Len(TopLevel) + SumStored(Nodes) = Cardinality(Nodes)

IsPrefix(p, q) == Len(p) <= Len(q) /\ SubSeq(q, 1, Len(p)) = p

Front(p) == SubSeq(p, 1, Len(p) - 1)

Last(p) == p[Len(p)]

\* The call of traverse_recipe has returned and the recipe is as it was
\* when the call was made.
Finished == pc = "done" /\ ~dirty

RECURSIVE Walk(_, _, _)
RECURSIVE WalkList(_, _, _, _)
\* The pre-order walk of the subtree of c, as <<component, path>> pairs.
Walk(c, path, fuel) ==
    <<[component |-> c, nested_path |-> path]>>
        \o (IF fuel = 0 THEN <<>> ELSE WalkList(Stored(c), path, 1, fuel - 1))

WalkList(ch, path, i, fuel) ==
    IF i > Len(ch) THEN <<>>
    ELSE Walk(ch[i], Append(path, i), fuel) \o WalkList(ch, path, i + 1, fuel)

RECURSIVE WalkTop(_)
WalkTop(j) ==
    IF j > Len(TopLevel) THEN <<>>
    ELSE Walk(TopLevel[j], <<j + 1>>, Len(objs)) \o WalkTop(j + 1)

\* The walk of the whole recipe: the trigger at path 1, then the top-level
\* actions at paths 2, 3, ..., each followed by its subtree.
ExpectedWalk == <<[component |-> recipe.trigger, nested_path |-> <<1>>]>> \o WalkTop(1)

Visits == [i \in 1..Len(out) |-> [component |-> out[i].component, nested_path |-> out[i].nested_path]]

----------------------------------------------------------------------------
(* Claims *)

\* C1: a traversal of a recipe whose actions form a finite tree emits
\* exactly 1 + (number of actions in the tree) records, and the global
\* indices of the records emitted, in emission order, are 1, 2, ..., N.
C1_CountAndIndices ==
    /\ \A i \in 1..Len(out) : out[i].global = i
    /\ (Finished /\ ProperTree) => Len(out) = 1 + Cardinality(Nodes)

C1_Witness ==
    /\ Finished /\ ProperTree
    /\ Cardinality(Nodes) = 3
    /\ \E c \in Nodes : Len(Stored(c)) = 2
    /\ out[Len(out)].global = 4

\* C2: the first record of every traversal is the trigger's, with global
\* index 1, path label "1" and component label "T", whatever the trigger's
\* name and whatever actions the recipe holds.
C2_TriggerFirst ==
    pc # "idle" =>
        /\ Len(out) >= 1
        /\ out[1].component = recipe.trigger
        /\ out[1].global = 1
        /\ out[1].nested_index = "1"
        /\ out[1].component_type = "T"

C2_Witness ==
    /\ pc = "done"
    /\ objs[recipe.trigger].name # "T"
    /\ Len(out) >= 3
    /\ out[1].component_type = "T"

\* C3: the records of the k children of a visited Action with path label P
\* carry the path labels P.1, ..., P.k in the order of get_children(), at
\* every depth: a record with a path of two or more components is that of
\* the child at the path's last position of the component visited at the
\* path's front, and once the traversal has returned every child of every
\* visited component has its record.
C3_ChildLabels ==
    ~dirty =>
        /\ \A j \in 1..Len(out) :
             Len(out[j].nested_path) >= 2 =>
                \E i \in 1..(j - 1) :
                    /\ out[i].nested_path = Front(out[j].nested_path)
                    /\ Last(out[j].nested_path) \in 1..Len(Stored(out[i].component))
                    /\ out[j].component = Stored(out[i].component)[Last(out[j].nested_path)]
                    /\ out[j].nested_index =
                           out[i].nested_index \o "." \o ToString(Last(out[j].nested_path))
        /\ pc = "done" =>
             \A i \in 1..Len(out) :
                \A k \in 1..Len(Stored(out[i].component)) :
                    \E j \in (i + 1)..Len(out) :
                        /\ out[j].nested_path = Append(out[i].nested_path, k)
                        /\ out[j].component = Stored(out[i].component)[k]

C3_Witness ==
    /\ Finished
    /\ \E i, j, k \in 1..Len(out) :
          /\ out[i].nested_index = "2.1"
          /\ out[j].nested_index = "2.1.1"
          /\ out[k].nested_index = "2.1.2"
          /\ Stored(out[i].component) = <<out[j].component, out[k].component>>
          /\ out[j].component # out[k].component

\* C4: the j-th top-level action is emitted with the one-component path
\* label j + 1, in list order, however many nested actions the top-level
\* actions before it have.
C4_TopLevelLabels ==
    ~dirty =>
        /\ \A i \in 2..Len(out) :
             Len(out[i].nested_path) = 1 =>
                LET j == out[i].nested_path[1] - 1 IN
                    /\ j \in 1..Len(TopLevel)
                    /\ out[i].component = TopLevel[j]
                    /\ out[i].nested_index = ToString(j + 1)
                    /\ \A h \in 2..(i - 1) :
                          Len(out[h].nested_path) = 1 => out[h].nested_path[1] < j + 1
        /\ pc = "done" =>
             \A j \in 1..Len(TopLevel) :
                \E i \in 2..Len(out) : out[i].nested_path = <<j + 1>>

C4_Witness ==
    /\ Finished
    /\ Len(TopLevel) = 2
    /\ Len(Stored(TopLevel[1])) = 2
    /\ out[5].nested_index = "3"
    /\ out[5].component = TopLevel[2]

\* C5: records are emitted in pre-order, depth first: no record comes
\* before the record of an ancestor or of an earlier sibling, the records
\* of a subtree are contiguous, and when a record is emitted every earlier
\* node that is not its ancestor has the records of all its children (so
\* of its whole subtree) emitted already.
LexLess(p, q) ==
    \E k \in 1..Len(q) :
        /\ Len(p) >= k - 1
        /\ SubSeq(p, 1, k - 1) = SubSeq(q, 1, k - 1)
        /\ (Len(p) = k - 1 \/ p[k] < q[k])

C5_PreOrder ==
    ~dirty =>
        \A i, j \in 1..Len(out) :
            i < j =>
                /\ LexLess(out[i].nested_path, out[j].nested_path)
                /\ \A h \in (i + 1)..(j - 1) :
                      IsPrefix(out[i].nested_path, out[j].nested_path)
                          => IsPrefix(out[i].nested_path, out[h].nested_path)
                /\ ~IsPrefix(out[i].nested_path, out[j].nested_path) =>
                      \A k \in 1..Len(Stored(out[i].component)) :
                          \E h \in (i + 1)..(j - 1) :
                              out[h].nested_path = Append(out[i].nested_path, k)

\* The scenario of the specification: A2 with children A2.1 and A2.2, A2.2
\* with child A2.2.1.
C5_Witness ==
    /\ Finished
    /\ [i \in 1..Len(out) |-> out[i].nested_index] = <<"1", "2", "2.1", "2.2", "2.2.1">>
    /\ [i \in 1..Len(out) |-> out[i].global] = <<1, 2, 3, 4, 5>>

\* C7: traverse_recipe never visits a component that is already on the
\* current ancestor path: it raises an error instead of emitting a record
\* for it.
C7_NoRevisit ==
    \A m, n \in 2..Len(stack) : m < n => stack[m].component # stack[n].component

\* C9: traverse_recipe leaves the components, their lists and the recipe
\* as they are; a traversal that has returned emitted the records the
\* recipe determines, from global index 1 on, whether it is the first call
\* or a later one and whether or not a child was appended before it; two
\* consecutive calls with no mutation between them emit the same records;
\* and an append leaves the records emitted before it as they are.
C9_State ==
    /\ Finished =>
          /\ Visits = ExpectedWalk
          /\ \A i \in 1..Len(out) : out[i].global = i
    /\ (pc \in {"done", "error"} /\ lastOut # <<>>) => out = lastOut

C9_Deterministic ==
    /\ []C9_State
    /\ [][op' = "traverse_recipe" => UNCHANGED <<objs, lists, recipe>>]_vars
    /\ [][op' \in {"add_action", "add_nested_action"} => out' = out]_vars

C9_Witness ==
    /\ pc = "done"
    /\ lastOut # <<>>
    /\ out = lastOut
    /\ Len(out) = 5
    /\ op = "traverse_recipe"

\* C10 as stated: a record is labelled "T" when its component is the
\* recipe's own trigger, and with the component's stored name otherwise.
C10_ByIdentity ==
    \A i \in 1..Len(out) :
        out[i].component_type =
            IF out[i].component = recipe.trigger THEN "T" ELSE objs[out[i].component].name

\* C10 as amended: a record is labelled "T" when its component is a Trigger
\* (the recipe's own or any other), and with the component's stored name
\* when it is an Action, also when that name is "T".
C10_ByKind ==
    \A i \in 1..Len(out) :
        out[i].component_type =
            IF objs[out[i].component].kind = "Trigger" THEN "T"
            ELSE objs[out[i].component].name

C10_Witness ==
    /\ pc = "done"
    /\ \E i, j \in 2..Len(out) :
          /\ objs[out[i].component].kind = "Action"
          /\ objs[out[i].component].name = "T"
          /\ out[i].component_type = "T"
          /\ objs[out[j].component].kind = "Trigger"
          /\ out[j].component # recipe.trigger
          /\ out[j].component_type = "T"

\* C6: the list a component stores changes through add_nested_action and
\* add_action only: no other operation of the program, and no mutation by
\* the caller of a list it holds, changes what get_children() of a
\* component or the actions of the recipe give.
C6_OnlyAppendOperations ==
    [][op' \notin {"add_nested_action", "add_action"} =>
          /\ \A c \in ObjIds : GetChildren(c)' = GetChildren(c)
          /\ RecipeMade => RecipeActions' = RecipeActions]_vars

\* C8: add_nested_action(c) and add_action(c) append c to the receiver's
\* list, and leave the list of every other component, the recipe's list
\* and the recipe's trigger as they are.
C8_AppendOnlyReceiver ==
    [][/\ \A a, c \in ObjIds :
            AddNestedAction(a, c) =>
                /\ GetChildren(a)' = Append(GetChildren(a), c)
                /\ \A b \in ObjIds \ {a} : GetChildren(b)' = GetChildren(b)
                /\ RecipeMade => RecipeActions' = RecipeActions
                /\ recipe' = recipe
       /\ \A c \in ObjIds :
            AddAction(c) =>
                /\ RecipeActions' = Append(RecipeActions, c)
                /\ \A b \in ObjIds : GetChildren(b)' = GetChildren(b)
                /\ recipe' = recipe]_vars

====
